---- MODULE Spec2Model ----
(***************************************************************************)
(* Result cache of the handwritten answer-sheet evaluator.                 *)
(*                                                                         *)
(* The three Streamlit scripts (streamlit_answer_evaluator.py, _v2, _v3)   *)
(* are re-executed top to bottom on every widget event.  One action of     *)
(* this model is one such script run: a widget change, a click on the      *)
(* clear button, a click on the evaluate/load button that finds the        *)
(* request cached.  The run of a miss is two actions: up to the remote     *)
(* call, where the script waits, and from its return or exception to the   *)
(* end of the handler.  A widget event that comes while the script waits   *)
(* starts the next run at once; the waiting run is told to stop.           *)
(*                                                                         *)
(* Text is a sequence of Unicode code points, bytes are a sequence of      *)
(* numbers 0..255.  The digest is modelled as an injective tag around the  *)
(* hashed bytes (the claims assume a collision-free digest).               *)
(***************************************************************************)
EXTENDS Integers, Sequences, FiniteSets, TLC

VARIABLES
    version,           \* which of the three scripts this session runs
    pool,              \* the files, modes, criteria texts and remote answers of this session
    uploaded_file,     \* st.file_uploader value: None or [name, data]
    api_key,           \* st.text_input value
    evaluation_mode,   \* st.radio value
    custom_criteria,   \* st.text_area value ("" while no file is uploaded)
    evaluation_cache,  \* st.session_state['evaluation_cache']
    session_state,     \* the other keys of st.session_state
    event,             \* what the last interaction did: branch taken, remote call made
    request_log,       \* <<request, result>> pairs put on display since the last clear,
                       \* kept for one request
    req_a, req_b,      \* two grading requests handed to get_file_hash
    hash_a, hash_b,    \* the keys computed for them (NotComputed before)
    call, outcome,     \* one function called on its own: its arguments, what it gave
    peer               \* a second session of the same server: its cache, its last run

vars == <<version, pool, uploaded_file, api_key, evaluation_mode, custom_criteria,
          evaluation_cache, session_state, event, request_log,
          req_a, req_b, hash_a, hash_b, call, outcome, peer>>

sessionVars == <<version, pool, uploaded_file, api_key, evaluation_mode, custom_criteria,
                 evaluation_cache, session_state, event, request_log>>

keyVars == <<req_a, req_b, hash_a, hash_b>>

pureVars == <<call, outcome>>

peerVars == <<peer>>

\* Python's None, and a key that was not computed yet
None == [none |-> TRUE]
NotComputed == [computed |-> FALSE]

(***************************************************************************)
(* Bounds                                                                  *)
(***************************************************************************)
MaxDocLen == 1     \* free bytes of a document handed to get_file_hash
MaxCritLen == 1    \* free code points of a criteria text handed to get_file_hash
MaxPages == 2      \* pages of a document handed to create_marked_pdf
MaxInFlight == 2   \* remote calls of one session in flight at a time
MaxScriptFrames == 16  \* frames on the stack at the top level of the script

(***************************************************************************)
(* Text and bytes                                                          *)
(***************************************************************************)
Modes == {"standard", "strict", "range"}

\* the code points of the three radio options
ModeText(m) ==
    CASE m = "standard" -> <<115, 116, 97, 110, 100, 97, 114, 100>>
      [] m = "strict"   -> <<115, 116, 114, 105, 99, 116>>
      [] m = "range"    -> <<114, 97, 110, 103, 101>>

\* str.encode() of one code point: UTF-8
EncodeCodePoint(cp) ==
    IF cp < 128 THEN <<cp>>
    ELSE IF cp < 2048 THEN <<192 + (cp \div 64), 128 + (cp % 64)>>
    ELSE IF cp < 65536
         THEN <<224 + (cp \div 4096), 128 + ((cp \div 64) % 64), 128 + (cp % 64)>>
    ELSE <<240 + (cp \div 262144), 128 + ((cp \div 4096) % 64),
           128 + ((cp \div 64) % 64), 128 + (cp % 64)>>

\* str.encode() of a text
RECURSIVE encode(_)
encode(text) ==
    IF text = <<>> THEN <<>>
    ELSE EncodeCodePoint(Head(text)) \o encode(Tail(text))

\* the utf-8 codec refuses a lone surrogate (U+D800..U+DFFF): str.encode()
\* raises UnicodeEncodeError.  The text of a widget holds none
Surrogate(cp) == cp \in 55296..57343

\* a codec that takes ASCII text only
EncodableAscii(text) == \A i \in 1..Len(text) : text[i] < 128

Encodable(text) == \A i \in 1..Len(text) : ~Surrogate(text[i])

UnicodeEncodeError == [raised |-> "UnicodeEncodeError"]

\* hashlib.sha256(content).hexdigest(), taken as collision-free
sha256_hexdigest(content) == [sha256 |-> content]

\* a variant that leaves the mode out of the hashed bytes
get_file_hash_without_mode(file_data, mode, criteria) ==
    sha256_hexdigest(file_data \o encode(criteria))

get_file_hash(file_data, mode, criteria) ==
    IF ~Encodable(criteria) THEN UnicodeEncodeError
    ELSE sha256_hexdigest(file_data \o encode(ModeText(mode)) \o encode(criteria))


(***************************************************************************)
(* Python dict operations used on st.session_state and on the cache        *)
(***************************************************************************)
EmptyDict == << >>

Has(d, k) == k \in DOMAIN d

Put(d, k, v) == [x \in (DOMAIN d) \cup {k} |-> IF x = k THEN v ELSE d[x]]

Del(d, k) == [x \in (DOMAIN d) \ {k} |-> d[x]]

\* d.get(k, default)
Get(d, k, default) == IF k \in DOMAIN d THEN d[k] ELSE default

(***************************************************************************)
(* Python str operations of parse_json_response.  A text is a sequence of  *)
(* one-character strings; positions handed around are Python's (0-based).  *)
(* A character outside U+0020..U+007E is written by its code point in      *)
(* hexadecimal, upper case, four digits or more: "U+000B", "U+00E9",       *)
(* "U+1F600"; tab, line feed, form feed and carriage return are written    *)
(* "\t", "\n", "\f", "\r".                                                 *)
(***************************************************************************)
\* the backquote character
Backquote == "BACKQUOTE"

\* str.isspace(): what str.strip() strips and the \s of re matches
Whitespace ==
    { " ", "\n", "\t", "\r", "\f",
      "U+000B", "U+001C", "U+001D", "U+001E", "U+001F", "U+0085", "U+00A0", "U+1680",
      "U+2000", "U+2001", "U+2002", "U+2003", "U+2004", "U+2005", "U+2006", "U+2007",
      "U+2008", "U+2009", "U+200A", "U+2028", "U+2029", "U+202F", "U+205F", "U+3000" }

RECURSIVE lstrip(_)
lstrip(text) ==
    IF text # <<>> /\ Head(text) \in Whitespace THEN lstrip(Tail(text)) ELSE text

RECURSIVE rstrip(_)
rstrip(text) ==
    IF text # <<>> /\ text[Len(text)] \in Whitespace
    THEN rstrip(SubSeq(text, 1, Len(text) - 1))
    ELSE text

\* text.strip()
strip(text) == rstrip(lstrip(text))

startswith(text, prefix) ==
    Len(text) >= Len(prefix) /\ SubSeq(text, 1, Len(prefix)) = prefix

endswith(text, suffix) ==
    Len(text) >= Len(suffix)
    /\ SubSeq(text, Len(text) - Len(suffix) + 1, Len(text)) = suffix

\* text[n:]
From(text, n) == SubSeq(text, n + 1, Len(text))

\* text.find(c): the first index of c, or -1
find(text, c) ==
    IF \E i \in 1..Len(text) : text[i] = c
    THEN (CHOOSE i \in 1..Len(text) :
            text[i] = c /\ \A j \in 1..(i - 1) : text[j] # c) - 1
    ELSE -1

\* text.rfind(c): the last index of c, or -1
rfind(text, c) ==
    IF \E i \in 1..Len(text) : text[i] = c
    THEN (CHOOSE i \in 1..Len(text) :
            text[i] = c /\ \A j \in (i + 1)..Len(text) : text[j] # c) - 1
    ELSE -1

\* text.replace(old, new) for single characters
replace(text, old, new) ==
    [i \in 1..Len(text) |-> IF text[i] = old THEN new ELSE text[i]]

\* the first position at or after i (1-based) that holds no whitespace
RECURSIVE SkipWhitespace(_, _)
SkipWhitespace(text, i) ==
    IF i <= Len(text) /\ text[i] \in Whitespace
    THEN SkipWhitespace(text, i + 1)
    ELSE i

\* re.sub(r',\s*X', 'X', text) for a closing bracket X
RECURSIVE RemoveCommaBefore(_, _)
RemoveCommaBefore(text, closer) ==
    IF text = <<>> THEN <<>>
    ELSE IF Head(text) = ","
         THEN LET j == SkipWhitespace(text, 2)
              IN  IF j <= Len(text) /\ text[j] = closer
                  THEN <<closer>> \o RemoveCommaBefore(SubSeq(text, j + 1, Len(text)), closer)
                  ELSE <<",">> \o RemoveCommaBefore(Tail(text), closer)
         ELSE <<Head(text)>> \o RemoveCommaBefore(Tail(text), closer)

(***************************************************************************)
(* json.loads: objects, arrays, strings with their escapes, numbers, true,  *)
(* false, null, NaN and the infinities.  A JSON value is tagged with its   *)
(* Python type.  A text json.loads rejects gives JSONDecodeError, nesting  *)
(* deeper than the interpreter's recursion limit RecursionError, and an    *)
(* integer literal of more than 4300 digits ValueError.  A float is the    *)
(* double nearest to its literal, written the way repr writes it: sign,    *)
(* shortest digits, power of ten.  Digits and exponents stay in the range  *)
(* of the integers of the checker (below 2^31).                            *)
(***************************************************************************)
JSONDecodeError == [ok |-> FALSE, error |-> "JSONDecodeError"]
RecursionError == [ok |-> FALSE, error |-> "RecursionError"]
ValueError == [ok |-> FALSE, error |-> "ValueError"]

Parsed(v, next) == [ok |-> TRUE, val |-> v, pos |-> next]

PyDict(d) == [t |-> "dict", v |-> d]
PyList(l) == [t |-> "list", v |-> l]
PyStr(x) == [t |-> "str", v |-> x]
PyInt(n) == [t |-> "int", v |-> n]
PyBool(b) == [t |-> "bool", v |-> b]
PyNone == [t |-> "NoneType"]

PyNaN == [t |-> "float", special |-> "nan"]
PyInfinity(sign) == [t |-> "float", special |-> "inf", sign |-> sign]

\* 10^n
RECURSIVE PowerOfTen(_)
PowerOfTen(n) == IF n = 0 THEN 1 ELSE 10 * PowerOfTen(n - 1)

RECURSIVE DigitCount(_)
DigitCount(n) == IF n < 10 THEN 1 ELSE 1 + DigitCount(n \div 10)

\* the digits of n up to its last nonzero one
RECURSIVE SignificantDigits(_)
SignificantDigits(n) ==
    IF n % 10 = 0 THEN SignificantDigits(n \div 10) ELSE DigitCount(n)

\* 2^-1075, half the smallest positive double, is 5^1075 / 10^1075: the first 32
\* digits of 5^1075, in base 10000, most significant limb first.  For the j met
\* here (below 869311860) j * 2^-1075 comes no nearer to a multiple of 10^-324
\* or of 10^-325 than 5e-10 of it, so the digits left out change no result
HalfOfSmallest == << 2470, 3282, 2920, 6232, 7208, 8284, 3964, 3411 >>

\* limb i of it, the least significant first
Limb(i) ==
    IF i \in 1..Len(HalfOfSmallest) THEN HalfOfSmallest[Len(HalfOfSmallest) + 1 - i] ELSE 0

\* j * HalfOfSmallest, limb by limb (j below 10^9)
Column(j, i) ==
    Limb(i) * (j % 10000) + Limb(i - 1) * ((j \div 10000) % 10000)
    + Limb(i - 2) * (j \div 100000000)

RECURSIVE CarryInto(_, _)
CarryInto(j, i) ==
    IF i = 1 THEN 0 ELSE (Column(j, i - 1) + CarryInto(j, i - 1)) \div 10000

ProductLimb(j, i) == (Column(j, i) + CarryInto(j, i)) % 10000

RECURSIVE HighPart(_, _)
HighPart(j, i) ==
    IF i > Len(HalfOfSmallest) + 3 THEN 0
    ELSE ProductLimb(j, i) + 10000 * HighPart(j, i + 1)

\* floor(j * 2^-1075 / 10^-(324 + t)), for t in 0..9
HalfUnits(j, t) ==
    ProductLimb(j, (31 - t) \div 4 + 1) \div PowerOfTen((31 - t) % 4)
    + PowerOfTen(4 - ((31 - t) % 4)) * HighPart(j, (31 - t) \div 4 + 2)

\* the first digit of j * 2^-1075 after the one at 10^-324
Tenths(j) == (ProductLimb(j, 8) \div 100) % 10

\* the largest j in lo..hi with floor(j * 2^-1075 / 10^-(324 + t)) < digits
RECURSIVE HalfUnitsBelow(_, _, _, _)
HalfUnitsBelow(digits, t, lo, hi) ==
    IF lo = hi THEN lo
    ELSE IF HalfUnits((lo + hi + 1) \div 2, t) < digits
         THEN HalfUnitsBelow(digits, t, (lo + hi + 1) \div 2, hi)
         ELSE HalfUnitsBelow(digits, t, lo, (lo + hi + 1) \div 2 - 1)

\* the decimals, in units of 10^-324, that round to the double m * 2^-1074
RoundingTo(m) == (HalfUnits(2 * m - 1, 0) + 1)..HalfUnits(2 * m + 1, 0)

Shortest(candidates) ==
    { n \in candidates :
        \A o \in candidates : SignificantDigits(n) <= SignificantDigits(o) }

\* the candidate nearest to j * 2^-1075
Nearest(candidates, j) ==
    CHOOSE n \in candidates : \A o \in candidates \ {n} :
        IF n < o
        THEN (n - HalfUnits(j, 0)) + (o - HalfUnits(j, 0))
               > (IF Tenths(j) >= 5 THEN 1 ELSE 0)
        ELSE (n - HalfUnits(j, 0)) + (o - HalfUnits(j, 0))
               <= (IF Tenths(j) >= 5 THEN 1 ELSE 0)

FloatOf(sign, digits, exponent) ==
    [t |-> "float", sign |-> sign, digits |-> digits, exponent |-> exponent]

\* repr of the double m * 2^-1074 (0 < m): the shortest decimal that rounds to it,
\* the nearest one among several
RECURSIVE Normalised(_, _, _)
Normalised(sign, n, exponent) ==
    IF n % 10 = 0 THEN Normalised(sign, n \div 10, exponent + 1)
    ELSE FloatOf(sign, n, exponent)

ReprOf(sign, m) ==
    IF m = 0 THEN FloatOf(sign, 0, 0)
    ELSE Normalised(sign, Nearest(Shortest(RoundingTo(m)), 2 * m), -324)

\* the least number of n digits that, n digits before 10^309, rounds to infinity:
\* the doubles end at 1.797693134862315708e308, and from 1.797693134862315807e308
\* on a literal rounds up
OverflowFrom(n) ==
    IF n >= 10 THEN 1797693135 ELSE 1797693134 \div PowerOfTen(10 - n) + 1

\* float(literal) for digits without a trailing zero, nonzero.  A literal whose
\* last digit stands at 10^-323 or above is what repr gives back (it has at most
\* ten digits); below that the literal is rounded to a multiple of 2^-1074
Rounded(sign, digits, exponent) ==
    IF \/ exponent + DigitCount(digits) - 1 > 308
       \/ /\ exponent + DigitCount(digits) - 1 = 308
          /\ digits >= OverflowFrom(DigitCount(digits))
    THEN PyInfinity(sign)
    ELSE IF exponent >= -323 THEN FloatOf(sign, digits, exponent)
    ELSE IF -324 - exponent >= DigitCount(digits) THEN FloatOf(sign, 0, 0)
    ELSE ReprOf(sign, (HalfUnitsBelow(digits, -324 - exponent, 0,
                           869311058 \div PowerOfTen(-324 - exponent)) + 1) \div 2)

RECURSIVE PyFloat(_, _, _)
PyFloat(sign, digits, exponent) ==
    IF digits = 0 THEN FloatOf(sign, 0, 0)
    ELSE IF digits % 10 = 0 THEN PyFloat(sign, digits \div 10, exponent + 1)
    ELSE Rounded(sign, digits, exponent)

\* whitespace between the tokens of a JSON text
JsonWhitespace == {" ", "\n", "\t", "\r"}

RECURSIVE SkipJsonWhitespace(_, _)
SkipJsonWhitespace(text, i) ==
    IF i <= Len(text) /\ text[i] \in JsonWhitespace
    THEN SkipJsonWhitespace(text, i + 1)
    ELSE i

Digits == {"0", "1", "2", "3", "4", "5", "6", "7", "8", "9"}

DigitValue(c) ==
    CASE c = "0" -> 0 [] c = "1" -> 1 [] c = "2" -> 2 [] c = "3" -> 3 [] c = "4" -> 4
      [] c = "5" -> 5 [] c = "6" -> 6 [] c = "7" -> 7 [] c = "8" -> 8 [] c = "9" -> 9

\* U+0000..U+001F, which a string literal must not hold unescaped
ControlCharacters ==
    { "U+0000", "U+0001", "U+0002", "U+0003", "U+0004", "U+0005", "U+0006", "U+0007",
      "U+0008", "\t", "\n", "U+000B", "\f", "\r", "U+000E", "U+000F",
      "U+0010", "U+0011", "U+0012", "U+0013", "U+0014", "U+0015", "U+0016", "U+0017",
      "U+0018", "U+0019", "U+001A", "U+001B", "U+001C", "U+001D", "U+001E", "U+001F" }

\* the characters of U+0020..U+007E, in their order
Ascii ==
    <<
      " ", "!", "\"", "#", "$", "%", "&", "'", "(", ")", "*", "+",
      ",", "-", ".", "/", "0", "1", "2", "3", "4", "5", "6", "7",
      "8", "9", ":", ";", "<", "=", ">", "?", "@", "A", "B", "C",
      "D", "E", "F", "G", "H", "I", "J", "K", "L", "M", "N", "O",
      "P", "Q", "R", "S", "T", "U", "V", "W", "X", "Y", "Z", "[",
      "\\", "]", "^", "_", Backquote, "a", "b", "c", "d", "e", "f", "g",
      "h", "i", "j", "k", "l", "m", "n", "o", "p", "q", "r", "s",
      "t", "u", "v", "w", "x", "y", "z", "{", "|", "}", "~" >>

UpperHex ==
    <<"0", "1", "2", "3", "4", "5", "6", "7", "8", "9", "A", "B", "C", "D", "E", "F">>

\* n in hexadecimal, in width digits or more
RECURSIVE HexText(_, _)
HexText(n, width) ==
    IF n = 0 /\ width <= 0 THEN ""
    ELSE HexText(n \div 16, width - 1) \o UpperHex[(n % 16) + 1]

\* chr(cp)
CodePointChar(cp) ==
    IF cp \in 32..126 THEN Ascii[cp - 31]
    ELSE CASE cp = 9 -> "\t" [] cp = 10 -> "\n" [] cp = 12 -> "\f" [] cp = 13 -> "\r"
           [] OTHER -> "U+" \o HexText(cp, 4)

HexDigits ==
    Digits \cup {"a", "b", "c", "d", "e", "f", "A", "B", "C", "D", "E", "F"}

HexValue(c) ==
    CASE c \in Digits -> DigitValue(c)
      [] c \in {"a", "A"} -> 10 [] c \in {"b", "B"} -> 11 [] c \in {"c", "C"} -> 12
      [] c \in {"d", "D"} -> 13 [] c \in {"e", "E"} -> 14 [] c \in {"f", "F"} -> 15

\* the four hexadecimal digits of a \u escape, at position i
IsHex4(text, i) == i + 3 <= Len(text) /\ \A k \in i..(i + 3) : text[k] \in HexDigits

Hex4(text, i) ==
    4096 * HexValue(text[i]) + 256 * HexValue(text[i + 1])
    + 16 * HexValue(text[i + 2]) + HexValue(text[i + 3])

\* a \u escape of a low surrogate at position j
LowSurrogateAt(text, j) ==
    /\ j + 1 <= Len(text) /\ text[j] = "\\" /\ text[j + 1] = "u"
    /\ IsHex4(text, j + 2)
    /\ Hex4(text, j + 2) \in 56320..57343

SimpleEscapes == {"\"", "\\", "/", "b", "f", "n", "r", "t"}

Unescaped(c) ==
    CASE c = "b" -> "U+0008" [] c = "f" -> "\f" [] c = "n" -> "\n"
      [] c = "r" -> "\r" [] c = "t" -> "\t" [] OTHER -> c

RECURSIVE ScanString(_, _, _), ScanUnicode(_, _, _)

\* the characters of a string literal from position j up to its closing quote
ScanString(text, j, chars) ==
    IF j > Len(text) THEN JSONDecodeError
    ELSE IF text[j] = "\"" THEN Parsed(chars, j + 1)
    ELSE IF text[j] \in ControlCharacters THEN JSONDecodeError
    ELSE IF text[j] # "\\" THEN ScanString(text, j + 1, Append(chars, text[j]))
    ELSE IF j + 1 > Len(text) THEN JSONDecodeError
    ELSE IF text[j + 1] \in SimpleEscapes
         THEN ScanString(text, j + 2, Append(chars, Unescaped(text[j + 1])))
    ELSE IF text[j + 1] = "u" THEN ScanUnicode(text, j, chars)
    ELSE JSONDecodeError

\* a \u escape at position j; a high surrogate takes the low one that follows
ScanUnicode(text, j, chars) ==
    IF ~IsHex4(text, j + 2) THEN JSONDecodeError
    ELSE IF Hex4(text, j + 2) \in 55296..56319 /\ LowSurrogateAt(text, j + 6)
         THEN ScanString(text, j + 12,
                         Append(chars, CodePointChar(65536
                                                     + (Hex4(text, j + 2) - 55296) * 1024
                                                     + (Hex4(text, j + 8) - 56320))))
    ELSE ScanString(text, j + 6, Append(chars, CodePointChar(Hex4(text, j + 2))))

\* a string literal that opens at position i
ParseString(text, i) ==
    IF i > Len(text) \/ text[i] # "\""
    THEN JSONDecodeError
    ELSE ScanString(text, i + 1, << >>)

\* the position after the run of digits that starts at i
DigitsEnd(text, i) ==
    CHOOSE k \in i..(Len(text) + 1) :
        /\ k > Len(text) \/ text[k] \notin Digits
        /\ \A m \in i..(k - 1) : text[m] \in Digits

RECURSIVE NumberValue(_)
NumberValue(digits) ==
    IF digits = <<>> THEN 0
    ELSE 10 * NumberValue(SubSeq(digits, 1, Len(digits) - 1))
         + DigitValue(digits[Len(digits)])

\* the position after the fraction that starts at j (j when there is none)
FractionEnd(text, j) ==
    IF j + 1 <= Len(text) /\ text[j] = "." /\ text[j + 1] \in Digits
    THEN DigitsEnd(text, j + 1)
    ELSE j

\* the position of the first digit of the exponent that starts at k (0 when
\* there is none)
ExponentDigits(text, k) ==
    IF k + 1 <= Len(text) /\ text[k] \in {"e", "E"} /\ text[k + 1] \in Digits
    THEN k + 1
    ELSE IF k + 2 <= Len(text) /\ text[k] \in {"e", "E"} /\ text[k + 1] \in {"+", "-"}
            /\ text[k + 2] \in Digits
    THEN k + 2
    ELSE 0

ExponentValue(text, x) ==
    IF x = 0 THEN 0
    ELSE (IF text[x - 1] = "-" THEN -1 ELSE 1)
         * NumberValue(SubSeq(text, x, DigitsEnd(text, x) - 1))

RECURSIVE WithoutEndingZeros(_)
WithoutEndingZeros(digits) ==
    IF digits # <<>> /\ digits[Len(digits)] = "0"
    THEN WithoutEndingZeros(SubSeq(digits, 1, Len(digits) - 1))
    ELSE digits

\* the float whose literal has these digits, the last of them at 10^exponent
FloatLiteral(sign, digits, exponent) ==
    PyFloat(sign, NumberValue(WithoutEndingZeros(digits)),
            exponent + Len(digits) - Len(WithoutEndingZeros(digits)))

\* the number with integer digits text[s..j-1], fraction up to k, exponent at x;
\* int() takes no more than sys.get_int_max_str_digits() digits
NumberOf(text, sign, s, j, k, x) ==
    IF k = j /\ x = 0
    THEN IF j - s > 4300 THEN ValueError
         ELSE Parsed(PyInt(sign * NumberValue(SubSeq(text, s, j - 1))), j)
    ELSE Parsed(FloatLiteral(sign,
                             SubSeq(text, s, j - 1) \o SubSeq(text, j + 1, k - 1),
                             ExponentValue(text, x) - (IF k > j THEN k - j - 1 ELSE 0)),
                IF x = 0 THEN k ELSE DigitsEnd(text, x))

NumberFrom(text, sign, s, j) ==
    IF j = s \/ (text[s] = "0" /\ j > s + 1)
    THEN JSONDecodeError
    ELSE NumberOf(text, sign, s, j, FractionEnd(text, j),
                  ExponentDigits(text, FractionEnd(text, j)))

\* a number that starts at i, with its sign
ParseNumber(text, i) ==
    IF text[i] = "-"
    THEN NumberFrom(text, -1, i + 1, DigitsEnd(text, i + 1))
    ELSE NumberFrom(text, 1, i, DigitsEnd(text, i))

ParseLiteral(text, i, word, value) ==
    IF i + Len(word) - 1 <= Len(text) /\ SubSeq(text, i, i + Len(word) - 1) = word
    THEN Parsed(value, i + Len(word))
    ELSE JSONDecodeError

\* sys.getrecursionlimit(): the scripts leave the interpreter's limit as it is.
\* The scanner of json.loads enters one recursive call for every container it
\* opens, on top of the frames already on the stack, and raises RecursionError
\* when the depth would reach the limit
RecursionLimit == 1000

RECURSIVE ParseValue(_, _, _), ParseMembers(_, _, _, _), ParseElements(_, _, _, _)

\* after a member: "}" closes the object, "," brings the next member
MembersNext(text, k, members, depth) ==
    IF k > Len(text) THEN JSONDecodeError
    ELSE IF text[k] = "}" THEN Parsed(PyDict(members), k + 1)
    ELSE IF text[k] = ","
         THEN ParseMembers(text, SkipJsonWhitespace(text, k + 1), members, depth)
    ELSE JSONDecodeError

\* a repeated key keeps the last value; an error inside the value is the error
\* of the whole
MembersAfterValue(text, key, value, members, depth) ==
    IF ~value.ok THEN value
    ELSE MembersNext(text, SkipJsonWhitespace(text, value.pos),
                     Put(members, key, value.val), depth)

MembersAfterColon(text, key, colon, members, depth) ==
    IF colon > Len(text) \/ text[colon] # ":" THEN JSONDecodeError
    ELSE MembersAfterValue(text, key, ParseValue(text, colon + 1, depth), members, depth)

MembersAfterKey(text, key, members, depth) ==
    IF ~key.ok THEN key
    ELSE MembersAfterColon(text, key.val, SkipJsonWhitespace(text, key.pos), members, depth)

\* "key": value pairs up to the closing brace
ParseMembers(text, i, members, depth) ==
    MembersAfterKey(text, ParseString(text, i), members, depth)

\* after an element: "]" closes the array, "," brings the next element
ElementsNext(text, k, elements, depth) ==
    IF k > Len(text) THEN JSONDecodeError
    ELSE IF text[k] = "]" THEN Parsed(PyList(elements), k + 1)
    ELSE IF text[k] = "," THEN ParseElements(text, k + 1, elements, depth)
    ELSE JSONDecodeError

ElementsAfterValue(text, value, elements, depth) ==
    IF ~value.ok THEN value
    ELSE ElementsNext(text, SkipJsonWhitespace(text, value.pos),
                      Append(elements, value.val), depth)

\* values up to the closing bracket
ParseElements(text, i, elements, depth) ==
    ElementsAfterValue(text, ParseValue(text, i, depth), elements, depth)

ParseMembersOrEmpty(text, k, depth) ==
    IF k <= Len(text) /\ text[k] = "}"
    THEN Parsed(PyDict(<< >>), k + 1)
    ELSE ParseMembers(text, k, << >>, depth)

ParseElementsOrEmpty(text, k, depth) ==
    IF k <= Len(text) /\ text[k] = "]"
    THEN Parsed(PyList(<< >>), k + 1)
    ELSE ParseElements(text, k, << >>, depth)

AsStr(r) == IF r.ok THEN Parsed(PyStr(r.val), r.pos) ELSE r

\* the value that starts at position j; depth counts the frames on the stack
\* (raw_decode's the last) and the containers open around the value
ValueAt(text, j, depth) ==
    IF j > Len(text) THEN JSONDecodeError
    ELSE CASE text[j] = "{" ->
                IF depth + 1 >= RecursionLimit THEN RecursionError
                ELSE ParseMembersOrEmpty(text, SkipJsonWhitespace(text, j + 1), depth + 1)
           [] text[j] = "[" ->
                IF depth + 1 >= RecursionLimit THEN RecursionError
                ELSE ParseElementsOrEmpty(text, SkipJsonWhitespace(text, j + 1), depth + 1)
           [] text[j] = "\"" -> AsStr(ParseString(text, j))
           [] text[j] \in Digits -> ParseNumber(text, j)
           [] text[j] = "-" ->
                IF j < Len(text) /\ text[j + 1] = "I"
                THEN ParseLiteral(text, j, <<"-", "I", "n", "f", "i", "n", "i", "t", "y">>,
                                  PyInfinity(-1))
                ELSE ParseNumber(text, j)
           [] text[j] = "N" -> ParseLiteral(text, j, <<"N", "a", "N">>, PyNaN)
           [] text[j] = "I" ->
                ParseLiteral(text, j, <<"I", "n", "f", "i", "n", "i", "t", "y">>,
                             PyInfinity(1))
           [] text[j] = "t" -> ParseLiteral(text, j, <<"t", "r", "u", "e">>, PyBool(TRUE))
           [] text[j] = "f" -> ParseLiteral(text, j, <<"f", "a", "l", "s", "e">>, PyBool(FALSE))
           [] text[j] = "n" -> ParseLiteral(text, j, <<"n", "u", "l", "l">>, PyNone)
           [] OTHER -> JSONDecodeError

\* the value that starts at or after position i
ParseValue(text, i, depth) == ValueAt(text, SkipJsonWhitespace(text, i), depth)

\* one value and nothing but whitespace after it
WholeText(text, r) ==
    IF ~r.ok \/ SkipJsonWhitespace(text, r.pos) > Len(text) THEN r ELSE JSONDecodeError

\* json.loads(text) called from a frame that is the stack-th on the stack (1 for
\* the top level of a file run by python): the value (ok), or the exception it
\* raises.  loads, decode and raw_decode are three frames more
json_loads(text, stack) == WholeText(text, ParseValue(text, 1, stack + 3))

Fence == <<Backquote, Backquote, Backquote>>
FenceJson == Fence \o <<"j", "s", "o", "n">>

DropJsonFence(text) == IF startswith(text, FenceJson) THEN From(text, 7) ELSE text

DropFence(text) == IF startswith(text, Fence) THEN From(text, 3) ELSE text

DropClosingFence(text) ==
    IF endswith(text, Fence) THEN SubSeq(text, 1, Len(text) - 3) ELSE text

\* text[start:end] when the text holds a "{" and a "}" after it, else None
Between(text, start, end) ==
    IF start # -1 /\ end > start THEN SubSeq(text, start + 1, end) ELSE None

FirstToLastBrace(text) == Between(text, find(text, "{"), rfind(text, "}") + 1)

\* the text between the first "{" and the last "}", or None
JsonObjectText(response_text) ==
    FirstToLastBrace(strip(DropClosingFence(DropFence(DropJsonFence(strip(response_text))))))

\* the second attempt's repairs: quotes, and in version 3 trailing commas
Repaired(v, json_str) ==
    IF v = 3
    THEN RemoveCommaBefore(RemoveCommaBefore(replace(json_str, "'", "\""), "}"), "]")
    ELSE replace(json_str, "'", "\"")

\* try: return json.loads(json_str) / except: pass, then return None
ValueOrNone(r) == IF r.ok THEN r.val ELSE None

\* an exception that left parse_json_response
RaisedError(error) == [raised |-> TRUE, error |-> error]

\* the first attempt catches json.JSONDecodeError alone; the second attempt
\* catches everything
SecondAttempt(v, json_str, first, stack) ==
    IF first.ok THEN first.val
    ELSE IF first.error # "JSONDecodeError" THEN RaisedError(first.error)
    ELSE ValueOrNone(json_loads(Repaired(v, json_str), stack))

\* both attempts call json.loads from the frame of parse_json_response
ParseObjectText(v, json_str, stack) ==
    IF json_str = None THEN None
    ELSE SecondAttempt(v, json_str, json_loads(json_str, stack), stack)

\* parse_json_response called from the stack-th frame: the evaluation record,
\* None, or the exception raised
parse_json_response(v, response_text, stack) ==
    ParseObjectText(v, JsonObjectText(response_text), stack + 1)

\* Python truth value of what parse_json_response returned
Truthy(evaluation_data) ==
    evaluation_data # None /\ evaluation_data.v # << >>

(***************************************************************************)
(* The marked PDF.  A PDF is the sequence of its pages; a page records     *)
(* where it comes from and the mark boxes drawn on it.                     *)
(***************************************************************************)
\* the keys of the evaluation record the scripts read
KeyQuestions ==
    <<"q", "u", "e", "s", "t", "i", "o", "n", "s">>
KeyPageNumber ==
    <<"p", "a", "g", "e", "_", "n", "u", "m", "b", "e", "r">>
KeyQuestionNumber ==
    <<"q", "u", "e", "s", "t", "i", "o", "n", "_", "n", "u", "m", "b", "e", "r">>
KeyMarksAwarded ==
    <<"m", "a", "r", "k", "s", "_", "a", "w", "a", "r", "d", "e", "d">>
KeyMaxMarks ==
    <<"m", "a", "x", "_", "m", "a", "r", "k", "s">>
KeyAttempted ==
    <<"a", "t", "t", "e", "m", "p", "t", "e", "d">>
KeyBriefFeedback ==
    <<"b", "r", "i", "e", "f", "_", "f", "e", "e", "d", "b", "a", "c", "k">>
KeyTotalMarksAwarded ==
    <<"t", "o", "t", "a", "l", "_", "m", "a", "r", "k", "s", "_", "a", "w", "a", "r",
      "d", "e", "d">>
KeyTotalMaxMarks ==
    <<"t", "o", "t", "a", "l", "_", "m", "a", "x", "_", "m", "a", "r", "k", "s">>
KeyPercentage ==
    <<"p", "e", "r", "c", "e", "n", "t", "a", "g", "e">>
KeyMissingConcepts ==
    <<"m", "i", "s", "s", "i", "n", "g", "_", "c", "o", "n", "c", "e", "p", "t", "s">>
KeyImprovementSuggestions ==
    <<"i", "m", "p", "r", "o", "v", "e", "m", "e", "n", "t", "_", "s", "u", "g", "g",
      "e", "s", "t", "i", "o", "n", "s">>
KeyOverallFeedback ==
    <<"o", "v", "e", "r", "a", "l", "l", "_", "f", "e", "e", "d", "b", "a", "c", "k">>
KeyPartWiseSummary ==
    <<"p", "a", "r", "t", "_", "w", "i", "s", "e", "_", "s", "u", "m", "m", "a", "r",
      "y">>
KeyStrengths ==
    <<"s", "t", "r", "e", "n", "g", "t", "h", "s">>

\* raised stands for an exception that left the function
Raised == [raised |-> TRUE]

Returned(x) == [raised |-> FALSE, value |-> x]

\* bool(x) of a JSON value
PyTruth(x) ==
    CASE x.t = "bool" -> x.v
      [] x.t = "int" -> x.v # 0
      [] x.t = "float" -> "special" \in DOMAIN x \/ x.digits # 0
      [] x.t = "NoneType" -> FALSE
      [] x.t = "dict" -> DOMAIN x.v # {}
      [] OTHER -> x.v # << >>

\* x == n for a JSON value x and the page number n (True == 1 and 1.0 == 1 in
\* Python)
EqualsInt(x, n) ==
    \/ x.t = "int" /\ x.v = n
    \/ x.t = "bool" /\ x.v = TRUE /\ n = 1
    \/ x.t = "bool" /\ x.v = FALSE /\ n = 0
    \/ /\ x.t = "float" /\ "special" \notin DOMAIN x
       /\ x.exponent \in 0..9
       /\ n % PowerOfTen(x.exponent) = 0
       /\ n \div PowerOfTen(x.exponent) = x.sign * x.digits

\* PdfReader(BytesIO(data)).pages: in the documents of the model each leading
\* byte "P" abbreviates one page of a well-formed PDF and the bytes after them
\* are ignored by the reader; data without one is no PDF (PdfReadError)
RECURSIVE PdfPageCount(_)
PdfPageCount(data) ==
    IF data # <<>> /\ Head(data) = 80 THEN 1 + PdfPageCount(Tail(data)) ELSE 0

Min(a, b) == IF a < b THEN a ELSE b

\* x[:n] works on text and lists only, len(x) on dicts as well
Sliceable(x) == x.t \in {"str", "list"}

HasLen(x) == x.t \in {"str", "list", "dict"}

PyLen(x) == IF x.t = "dict" THEN Cardinality(DOMAIN x.v) ELSE Len(x.v)

\* `for q in evaluation_data.get('questions', [])` with q.get(...) in its body
\* runs through when the value is a list of records, or is empty
QuestionsOf(evaluation_data) == Get(evaluation_data.v, KeyQuestions, PyList(<< >>))

\* a loop over x whose body calls .get on the first `limit` items runs through
RecordsUpTo(x, limit) ==
    \/ x.t = "list" /\ \A i \in 1..Min(Len(x.v), limit) : x.v[i].t = "dict"
    \/ x.t \in {"str", "dict"} /\ PyLen(x) = 0

QuestionsIterable(evaluation_data) ==
    RecordsUpTo(QuestionsOf(evaluation_data), PyLen(QuestionsOf(evaluation_data)))

\* the page number a question without one is taken to be on
DefaultPage(v) == IF v = 2 THEN 1 ELSE 0

\* questions_on_page of create_marks_overlay
OnPage(v, q, page_num) ==
    /\ EqualsInt(Get(q.v, KeyPageNumber, PyInt(DefaultPage(v))), page_num)
    /\ v = 3 => PyTruth(Get(q.v, KeyAttempted, PyBool(TRUE)))

MarkBox(q) ==
    [question |-> Get(q.v, KeyQuestionNumber, PyStr(<<"?">>)),
     marks |-> Get(q.v, KeyMarksAwarded, PyStr(<<"?">>)),
     max_marks |-> Get(q.v, KeyMaxMarks, PyStr(<<"?">>))]

RECURSIVE BoxesOnPage(_, _, _)
BoxesOnPage(v, questions, page_num) ==
    IF questions = <<>> THEN <<>>
    ELSE (IF OnPage(v, Head(questions), page_num)
          THEN <<MarkBox(Head(questions))>> ELSE <<>>)
         \o BoxesOnPage(v, Tail(questions), page_num)

\* create_marks_overlay: the boxes drawn for one page; the comprehension reads
\* every question, and raises on a value it cannot iterate or an item without .get
create_marks_overlay(v, evaluation_data, page_num) ==
    IF ~QuestionsIterable(evaluation_data) THEN Raised
    ELSE IF QuestionsOf(evaluation_data).t = "list"
         THEN Returned(BoxesOnPage(v, QuestionsOf(evaluation_data).v, page_num))
    ELSE Returned(<< >>)

\* a loop over x[:limit] whose body slices each item runs through (the items
\* of a text are its characters)
SlicedItemsOk(x, limit) ==
    \/ x.t = "str"
    \/ x.t = "list" /\ \A i \in 1..Min(Len(x.v), limit) : Sliceable(x.v[i])

\* the same for the body `item[:width] if len(item) > width else item`
MeasuredItemsOk(x, limit, width) ==
    \/ x.t = "str"
    \/ x.t = "list" /\ \A i \in 1..Min(Len(x.v), limit) :
           HasLen(x.v[i]) /\ (PyLen(x.v[i]) > width => Sliceable(x.v[i]))

\* the rows of the question table: q.get(...) and q.get('brief_feedback', '')[:n]
\* on the first `limit` questions
QuestionRowsOk(qs, limit) ==
    /\ RecordsUpTo(qs, limit)
    /\ qs.t = "list" =>
         \A i \in 1..Min(Len(qs.v), limit) :
             Sliceable(Get(qs.v[i].v, KeyBriefFeedback, PyStr(<< >>)))

ListedUnder(evaluation_data, k) == Get(evaluation_data.v, k, PyList(<< >>))

OverallFeedbackOf(evaluation_data) ==
    Get(evaluation_data.v, KeyOverallFeedback, PyStr(<< >>))

\* Version 2.  y is kept as the distance from the top of the A4 page (841.89
\* points), which the code only ever changes by whole points: `y < 300` is
\* distance >= 542 and `y > 80` is distance <= 761.  The question loop breaks
\* after the 16th row (265 + 18 * 16 >= 542).
SummaryDistance2(evaluation_data) ==
    361 + 18 * Min(PyLen(QuestionsOf(evaluation_data)), 16)
        + 15 * Min(PyLen(ListedUnder(evaluation_data, KeyMissingConcepts)), 6)
        + 15 * Min(PyLen(ListedUnder(evaluation_data, KeyImprovementSuggestions)), 5)

SummaryRaises2(evaluation_data) ==
    IF ~QuestionRowsOk(QuestionsOf(evaluation_data), 16) THEN TRUE
    ELSE IF ~MeasuredItemsOk(ListedUnder(evaluation_data, KeyMissingConcepts), 6, 70)
    THEN TRUE
    ELSE IF ~MeasuredItemsOk(ListedUnder(evaluation_data, KeyImprovementSuggestions),
                             5, 80)
    THEN TRUE
    ELSE /\ SummaryDistance2(evaluation_data) <= 761
         /\ OverallFeedbackOf(evaluation_data).t # "str"

\* Version 3.  The part table takes 14 points a row, the question table 12 points
\* a row of its first column; a section is drawn while there is room for it:
\* `y > 250` is distance <= 591, `y > 180` is <= 661, `y > 100` is <= 741 and
\* `y > 60` is <= 781.  The question loop breaks after the 45th question.
AfterQuestions3(evaluation_data) ==
    274 + 14 * PyLen(ListedUnder(evaluation_data, KeyPartWiseSummary))
        + 12 * Min(PyLen(QuestionsOf(evaluation_data)), 15)

\* one section of at most `limit` items, drawn when the distance is at most `room`
SectionDrawn(distance, room) == distance <= room

AfterSection3(evaluation_data, k, limit, room, tail, distance) ==
    IF SectionDrawn(distance, room)
    THEN distance + 19 + 12 * Min(PyLen(ListedUnder(evaluation_data, k)), limit) + tail
    ELSE distance

SectionRaises3(evaluation_data, k, limit, room, distance) ==
    SectionDrawn(distance, room) /\ ~SlicedItemsOk(ListedUnder(evaluation_data, k), limit)

OverallRaises3(evaluation_data, distance) ==
    SectionDrawn(distance, 781) /\ OverallFeedbackOf(evaluation_data).t # "str"

SuggestionsRaise3(evaluation_data, distance) ==
    IF SectionRaises3(evaluation_data, KeyImprovementSuggestions, 4, 741, distance)
    THEN TRUE
    ELSE OverallRaises3(evaluation_data,
                        AfterSection3(evaluation_data, KeyImprovementSuggestions, 4, 741,
                                      0, distance))

MissingRaises3(evaluation_data, distance) ==
    IF SectionRaises3(evaluation_data, KeyMissingConcepts, 5, 661, distance) THEN TRUE
    ELSE SuggestionsRaise3(evaluation_data,
                           AfterSection3(evaluation_data, KeyMissingConcepts, 5, 661, 8,
                                         distance))

StrengthsRaise3(evaluation_data, distance) ==
    IF SectionRaises3(evaluation_data, KeyStrengths, 3, 591, distance) THEN TRUE
    ELSE MissingRaises3(evaluation_data,
                        AfterSection3(evaluation_data, KeyStrengths, 3, 591, 8, distance))

SummaryRaises3(evaluation_data) ==
    IF ~RecordsUpTo(ListedUnder(evaluation_data, KeyPartWiseSummary),
                    PyLen(ListedUnder(evaluation_data, KeyPartWiseSummary)))
    THEN TRUE
    ELSE IF ~QuestionRowsOk(QuestionsOf(evaluation_data), 45) THEN TRUE
    ELSE StrengthsRaise3(evaluation_data, AfterQuestions3(evaluation_data))

\* the type errors create_summary_page runs into on the fields it iterates,
\* slices, measures or splits
SummaryRaises(v, evaluation_data) ==
    IF v = 2 THEN SummaryRaises2(evaluation_data) ELSE SummaryRaises3(evaluation_data)

\* create_summary_page: one page (the canvas is saved without a page break)
create_summary_page(v, evaluation_data, mode) ==
    IF SummaryRaises(v, evaluation_data) THEN Raised
    ELSE Returned(
           [kind |-> "summary",
            mode |-> mode,
            total_marks_awarded |->
                Get(evaluation_data.v, KeyTotalMarksAwarded, PyStr(<<"?">>)),
            total_max_marks |-> Get(evaluation_data.v, KeyTotalMaxMarks, PyStr(<<"?">>)),
            percentage |-> Get(evaluation_data.v, KeyPercentage, PyStr(<<"?">>))])

\* page page_num of the document with its overlay merged in
MarkedPage(v, evaluation_data, page_num) ==
    [kind |-> "original", index |-> page_num,
     boxes |-> create_marks_overlay(v, evaluation_data, page_num).value]

\* a variant that adds a page to the writer only when an overlay was merged
create_marked_pdf_marked_pages(v, original_pdf_bytes, evaluation_data, mode) ==
    LET Marked(page) == page.boxes # <<>>
    IN  IF PdfPageCount(original_pdf_bytes) = 0 THEN Raised
        ELSE IF create_marks_overlay(v, evaluation_data, 1).raised THEN Raised
        ELSE IF create_summary_page(v, evaluation_data, mode).raised THEN Raised
        ELSE Returned(
               SelectSeq([page_num \in 1..PdfPageCount(original_pdf_bytes) |->
                            MarkedPage(v, evaluation_data, page_num)],
                         Marked)
               \o <<create_summary_page(v, evaluation_data, mode).value>>)

\* create_marked_pdf: every original page with its overlay merged in, in order,
\* then the summary; an overlay raises on every page or on none
create_marked_pdf(v, original_pdf_bytes, evaluation_data, mode) ==
    IF PdfPageCount(original_pdf_bytes) = 0 THEN Raised
    ELSE IF create_marks_overlay(v, evaluation_data, 1).raised THEN Raised
    ELSE IF create_summary_page(v, evaluation_data, mode).raised THEN Raised
    ELSE Returned(
           [page_num \in 1..PdfPageCount(original_pdf_bytes) |->
              MarkedPage(v, evaluation_data, page_num)]
           \o <<create_summary_page(v, evaluation_data, mode).value>>)

(***************************************************************************)
(* What one session is fed: uploads, widget values, remote responses       *)
(***************************************************************************)
Versions == {1, 2, 3}

\* "P" and "Pstandard": a document whose bytes end with a mode name
DocP == <<80>>
DocPstandard == <<80>> \o encode(ModeText("standard"))

ApiKeys == { "", "sk-ant-1" }

\* message.content[0].text of the remote service
Graded7 ==
    <<"7", "/", "1", "0">>
Graded8 ==
    <<"8", "/", "1", "0">>
Json7 ==
    <<"{", "\"", "q", "u", "e", "s", "t", "i", "o", "n", "s", "\"", ":", "[", "{",
      "\"", "p", "a", "g", "e", "_", "n", "u", "m", "b", "e", "r", "\"", ":", "1", ",",
      "\"", "m", "a", "r", "k", "s", "_", "a", "w", "a", "r", "d", "e", "d", "\"", ":",
      "7", "}", "]", "}">>
Json8Fenced ==
    <<Backquote, Backquote, Backquote, "j", "s", "o", "n", "\n", "{", "\"", "q", "u",
      "e", "s", "t", "i", "o", "n", "s", "\"", ":", "[", "{", "\"", "p", "a", "g", "e",
      "_", "n", "u", "m", "b", "e", "r", "\"", ":", "1", ",", "\"", "m", "a", "r", "k",
      "s", "_", "a", "w", "a", "r", "d", "e", "d", "\"", ":", "8", "}", "]", "}", "\n",
      Backquote, Backquote, Backquote>>
JsonEmpty ==
    <<"{", "}">>
JsonNone ==
    <<"I", " ", "c", "a", "n", "n", "o", "t", " ", "r", "e", "a", "d", " ", "i", "t">>
JsonBadQuestions ==
    <<"{", "\"", "q", "u", "e", "s", "t", "i", "o", "n", "s", "\"", ":", "1", "}">>

ResponseTexts(v) ==
    IF v = 1 THEN {Graded7, Graded8}
    ELSE {Json7, Json8Fenced, JsonEmpty, JsonNone, JsonBadQuestions}

AllResponseTexts == ResponseTexts(1) \cup ResponseTexts(2)

\* one answer of every kind: a grading, a record, no record, a record that cannot
\* be drawn
OneOfEachKind == {Graded7, Json7, JsonNone, JsonBadQuestions}

\* what one session works with: the files, modes and criteria texts the user picks
\* from, and the texts the remote service answers with.  One document under two
\* file names, two modes and every answer; or two documents, two modes and a
\* criteria text that begins with a mode name (with these, two different requests
\* hash the same bytes) and one answer of every kind; or one document, every mode
\* and one answer of every kind
Pools ==
    { [files |-> { [name |-> "a.pdf", data |-> DocP],
                   [name |-> "b.pdf", data |-> DocP] },
       modes |-> {"standard", "strict"},
       criteria |-> { <<>> },
       responses |-> AllResponseTexts],
      [files |-> { [name |-> "a.pdf", data |-> DocP],
                   [name |-> "c.pdf", data |-> DocPstandard] },
       modes |-> {"standard", "strict"},
       criteria |-> { <<>>, ModeText("strict") },
       responses |-> OneOfEachKind],
      [files |-> { [name |-> "a.pdf", data |-> DocP] },
       modes |-> Modes,
       criteria |-> { <<>> },
       responses |-> OneOfEachKind] }

\* a user with one document, two modes and two criteria texts
SoloPool ==
    [files |-> { [name |-> "a.pdf", data |-> DocP] },
     modes |-> {"standard", "strict"},
     criteria |-> { <<>>, ModeText("strict") },
     responses |-> OneOfEachKind]

\* the answers the remote service has for this session's script
RemoteResponses == ResponseTexts(version) \cap pool.responses

(***************************************************************************)
(* The script                                                              *)
(***************************************************************************)
\* st.session_state before the first run of the script: no 'evaluation_cache' key
NoCache == [k \in {[missing |-> TRUE]} |-> TRUE]

\* an initialisation that assigns the empty cache on every run
InitialisedCacheAnew(cache) == EmptyDict

\* if 'evaluation_cache' not in st.session_state: ... = {}
InitialisedCache(cache) == IF cache = NoCache THEN EmptyDict ELSE cache

\* the cache every run of the script works on, after that initialisation
Cache == InitialisedCache(evaluation_cache)

CurrentRequest == <<uploaded_file.data, evaluation_mode, custom_criteria>>

\* the log of what was put on display follows one request: the one-byte document
\* in standard mode without criteria
LoggedRequest == <<DocP, "standard", <<>>>>

\* the log after the current request got this result on display
Logged(log, result) ==
    IF CurrentRequest = LoggedRequest THEN log \cup {<<CurrentRequest, result>>} ELSE log

\* file_hash of the current widget values
file_hash == get_file_hash(uploaded_file.data, evaluation_mode, custom_criteria)

\* a lookup that never finds an entry
is_cached_never == FALSE

\* is_cached = file_hash in st.session_state['evaluation_cache']
is_cached == Has(Cache, file_hash)

\* a guard that asks for the file alone
ResultsColumnGuardFileOnly == uploaded_file # None

\* if uploaded_file is not None and api_key:
ResultsColumnGuard == uploaded_file # None /\ api_key # ""

\* what the last run of the script was.  A run of a button that Streamlit ended
\* before the handler's last statement is an "interrupted_" run: every access to
\* st.session_state and every st.* call first hands control to the script runner,
\* and when a widget event of the user is queued by then the runner raises
\* RerunException there (a BaseException, which except Exception lets through)
\* and starts the script anew for that event
Ran(kind, remote) == [kind |-> kind, remote |-> remote]

\* the run is inside client.messages.create; in_flight counts its remote call
\* and those of the runs it found waiting for theirs: so many are in flight
Pending(in_flight) == [kind |-> "pending", remote |-> TRUE, in_flight |-> in_flight]

\* the miss branch is through: the result or the error is on the page and the
\* run goes on to the end of the script
Completed(kind) == Ran(kind, TRUE)

\* the same of a run whose remote call returned: response_text is
\* message.content[0].text
Received(kind, response_text) ==
    [kind |-> kind, remote |-> TRUE, response_text |-> response_text]

\* the result a run puts on display: the key the results section is guarded by
ResultKey(v) == IF v = 1 THEN "evaluation" ELSE "marked_pdf"

\* a widget value changed: the script reruns and no button reads True
Rerun ==
    /\ event' = Ran("input", FALSE)
    /\ evaluation_cache' = Cache
    /\ UNCHANGED <<version, pool, session_state, request_log>>

ChangeFile ==
    /\ \E f \in pool.files \cup {None} :
         /\ f # uploaded_file
         /\ uploaded_file' = f
         \* the text area exists only while a file is uploaded
         /\ custom_criteria' = IF f = None THEN <<>> ELSE custom_criteria
    /\ UNCHANGED <<api_key, evaluation_mode>>
    /\ Rerun

ChangeMode ==
    /\ \E m \in pool.modes : m # evaluation_mode /\ evaluation_mode' = m
    /\ UNCHANGED <<uploaded_file, api_key, custom_criteria>>
    /\ Rerun

ChangeCriteria ==
    /\ uploaded_file # None
    /\ \E c \in pool.criteria : c # custom_criteria /\ custom_criteria' = c
    /\ UNCHANGED <<uploaded_file, api_key, evaluation_mode>>
    /\ Rerun

ChangeApiKey ==
    /\ \E k \in ApiKeys : k # api_key /\ api_key' = k
    /\ UNCHANGED <<uploaded_file, evaluation_mode, custom_criteria>>
    /\ Rerun

\* the keys the clear button deletes after emptying the cache, each in a
\* statement of its own, in this order
ClearedKeys(v) == IF v = 1 THEN <<"evaluation", "filename">> ELSE <<"marked_pdf">>

\* a clear that leaves the cache as it is
ClearedCacheKept(cache) == cache

ClearedCache(cache) == EmptyDict

\* the session state after the first n deletions of the clear button
ClearedUpTo(v, state, n) ==
    [k \in (DOMAIN state) \ { ClearedKeys(v)[i] : i \in 1..n } |-> state[k]]

\* if st.button("Clear Evaluation Cache"): ... st.rerun().  The cache is emptied
\* first; the run gets through all the deletions, or a queued widget event ends
\* it after n of them (a run ended before the cache is emptied changes nothing)
ClearCache ==
    /\ evaluation_cache' = ClearedCache(Cache)
    /\ \E n \in 0..Len(ClearedKeys(version)) :
         /\ session_state' = ClearedUpTo(version, session_state, n)
         /\ event' = IF n = Len(ClearedKeys(version)) THEN Ran("clear", FALSE)
                     ELSE Ran("interrupted_clear", FALSE)
    /\ request_log' = {}
    /\ UNCHANGED <<version, pool, uploaded_file, api_key, evaluation_mode, custom_criteria>>

\* an entry that records an empty file name
NewEntryUnnamed(v, result, filename, mode, eval_data) ==
    CASE v = 1 -> [evaluation |-> result, filename |-> "", mode_used |-> mode]
      [] v = 2 -> [marked_pdf |-> result, filename |-> ""]
      [] v = 3 -> [marked_pdf |-> result, filename |-> "", eval_data |-> eval_data]

\* the entry a successful evaluation writes
NewEntry(v, result, filename, mode, eval_data) ==
    CASE v = 1 -> [evaluation |-> result, filename |-> filename, mode_used |-> mode]
      [] v = 2 -> [marked_pdf |-> result, filename |-> filename]
      [] v = 3 -> [marked_pdf |-> result, filename |-> filename, eval_data |-> eval_data]

\* a display that also remembers the API key of the run
DisplayedWithApiKey(v, state, entry) ==
    [k \in DOMAIN state \cup DOMAIN entry \cup {"api_key"} |->
        IF k = "api_key" THEN api_key
        ELSE IF k \in DOMAIN entry THEN entry[k] ELSE state[k]]

\* a display that takes the file name from the upload widget, not from the entry
DisplayedUploadName(v, state, entry) ==
    [k \in DOMAIN state \cup DOMAIN entry |->
        IF k = "filename" THEN uploaded_file.name
        ELSE IF k \in DOMAIN entry THEN entry[k] ELSE state[k]]

\* the session-state keys set from an entry, on a load and after an evaluation
Displayed(v, state, entry) ==
    CASE v = 1 -> Put(Put(Put(state, "evaluation", entry.evaluation),
                          "filename", entry.filename),
                      "mode_used", entry.mode_used)
      [] v = 2 -> Put(Put(state, "marked_pdf", entry.marked_pdf),
                      "filename", entry.filename)
      [] v = 3 -> Put(Put(Put(state, "marked_pdf", entry.marked_pdf),
                          "filename", entry.filename),
                      "eval_data", Get(entry, "eval_data", PyDict(<< >>)))

\* the keys in the order of the assignments
DisplayOrder(v) ==
    CASE v = 1 -> <<"evaluation", "filename", "mode_used">>
      [] v = 2 -> <<"marked_pdf", "filename">>
      [] v = 3 -> <<"marked_pdf", "filename", "eval_data">>

\* the session state after the first n of these assignments
DisplayedUpTo(v, state, entry, n) ==
    IF n >= Len(DisplayOrder(v)) THEN Displayed(v, state, entry)
    ELSE [k \in DOMAIN state \cup { DisplayOrder(v)[i] : i \in 1..n } |->
             IF \E i \in 1..n : DisplayOrder(v)[i] = k
             THEN Displayed(v, state, entry)[k]
             ELSE state[k]]

\* a lookup that takes the entry out of the cache
AfterLookupPopped(cache, key) == Del(cache, key)

\* what is_cached and cached = st.session_state['evaluation_cache'][file_hash]
\* leave in the cache
AfterLookup(cache, key) == cache

\* the first n assignments of the hit branch
LoadEntry(cached, n) ==
    /\ session_state' = DisplayedUpTo(version, session_state, cached, n)
    /\ request_log' = Logged(request_log, cached[ResultKey(version)])
    /\ event' = IF n = Len(DisplayOrder(version)) THEN Ran("load", FALSE)
                ELSE Ran("interrupted_load", FALSE)

\* if is_cached: load from cache.  The run gets through all the assignments, or
\* a queued widget event ends it after n of them (a run ended before the first
\* one changes nothing)
LoadCached ==
    /\ ResultsColumnGuard
    /\ is_cached
    /\ \E n \in 1..Len(DisplayOrder(version)) : LoadEntry(Cache[file_hash], n)
    /\ evaluation_cache' = AfterLookup(Cache, file_hash)
    /\ UNCHANGED <<version, pool, uploaded_file, api_key, evaluation_mode, custom_criteria>>

\* the depth of the script's top-level frame: 1 when the file is run by python,
\* more under a script runner, which calls it from inside a thread's frames
ScriptFrames == 1..MaxScriptFrames

\* what parse_json_response can give for the response texts of the model, at
\* the depths the script can run at; worked out once
ParsedResponse ==
    [v \in {2, 3} |->
        [text \in ResponseTexts(v) |->
            { parse_json_response(v, text, stack) : stack \in ScriptFrames }]]

HandlePdf(marked_pdf, evaluation_data) ==
    IF marked_pdf.raised THEN [kind |-> "error"]
    ELSE [kind |-> "stored", result |-> marked_pdf.value, eval_data |-> evaluation_data]

\* if evaluation_data: ... else: st.error("Failed to parse evaluation"); an
\* exception that left parse_json_response is caught by the except branch
HandleParsed(v, evaluation_data, file_data, mode) ==
    IF "raised" \in DOMAIN evaluation_data THEN [kind |-> "error"]
    ELSE IF ~Truthy(evaluation_data) THEN [kind |-> "parse_failed"]
    ELSE HandlePdf(create_marked_pdf(v, file_data, evaluation_data, mode), evaluation_data)

\* what the miss branch can do with the text the remote call returned
HandleResponse(v, response_text, file_data, mode) ==
    IF v = 1
    THEN { [kind |-> "stored", result |-> response_text, eval_data |-> None] }
    ELSE { HandleParsed(v, evaluation_data, file_data, mode) :
             evaluation_data \in ParsedResponse[v][response_text] }

\* a write that keeps the entry a key already has
StoredIfAbsent(cache, key, entry) ==
    IF key \in DOMAIN cache THEN cache ELSE Put(cache, key, entry)

\* a write that keeps the new entry alone
StoredAlone(cache, key, entry) == Put(EmptyDict, key, entry)

\* the cache after the write of the miss branch
Stored(cache, key, entry) == Put(cache, key, entry)

\* the first n writes of the miss branch: the session-state keys one by one,
\* then the cache
StoreEntry(entry, result, response_text, n) ==
    /\ session_state' = DisplayedUpTo(version, session_state, entry, n)
    /\ evaluation_cache' = IF n > Len(DisplayOrder(version))
                           THEN Stored(Cache, file_hash, entry)
                           ELSE Cache
    /\ request_log' = IF n >= 1 THEN Logged(request_log, result) ELSE request_log
    /\ event' = IF n > Len(DisplayOrder(version)) THEN Received("stored", response_text)
                ELSE Received("interrupted_evaluate", response_text)

StoreResult(done, response_text, n) ==
    /\ done.kind = "stored"
    /\ StoreEntry(NewEntry(version, done.result, uploaded_file.name, evaluation_mode,
                           done.eval_data),
                  done.result, response_text, n)

\* else: the remote call returned a result.  The run displays and caches it, or
\* a widget event queued during the call or since ends it after n of its writes
\* (none, when the event came during the call), with no message
EvaluateStored ==
    /\ ResultsColumnGuard
    /\ ~is_cached
    /\ \E text \in RemoteResponses : \E n \in 0..(Len(DisplayOrder(version)) + 1) :
         \E done \in HandleResponse(version, text, uploaded_file.data, evaluation_mode) :
            StoreResult(done, text, n)
    /\ UNCHANGED <<version, pool, uploaded_file, api_key, evaluation_mode, custom_criteria>>

\* a failed attempt that caches its failure
AfterFailureCached(cache, key) == Put(cache, key, [filename |-> "", failed |-> TRUE])

\* what a failed attempt leaves in the cache
AfterFailure(cache, key) == cache

\* a failed attempt that takes the displayed result off the page
DisplayedAfterFailureBlank(state) == EmptyDict

\* what a failed attempt leaves in st.session_state: the writes come after the
\* last statement of the try block that can raise
DisplayedAfterFailure(state) == state

\* st.error in the else and except branches: the message is shown, or a queued
\* widget event ends the run at that call
Reported(kind) == {Completed(kind), Completed("interrupted_evaluate")}

\* the same after a remote call that returned
ReportedAfter(kind, response_text) ==
    {Received(kind, response_text), Received("interrupted_evaluate", response_text)}

\* else: the remote call returned a text without a usable evaluation record
EvaluateParseFailed ==
    /\ ResultsColumnGuard
    /\ ~is_cached
    /\ \E text \in RemoteResponses :
         \E done \in HandleResponse(version, text, uploaded_file.data, evaluation_mode) :
            /\ done.kind = "parse_failed"
            /\ event' \in ReportedAfter("parse_failed", text)
    /\ evaluation_cache' = AfterFailure(Cache, file_hash)
    /\ session_state' = DisplayedAfterFailure(session_state)
    /\ UNCHANGED <<version, pool, uploaded_file, api_key, evaluation_mode, custom_criteria,
                   request_log>>

\* else: the remote call returned and building the marked PDF raised
EvaluateRaisedAfterResponse ==
    /\ ResultsColumnGuard
    /\ ~is_cached
    /\ \E text \in RemoteResponses :
         \E done \in HandleResponse(version, text, uploaded_file.data, evaluation_mode) :
            /\ done.kind = "error"
            /\ event' \in ReportedAfter("error", text)
    /\ evaluation_cache' = AfterFailure(Cache, file_hash)
    /\ session_state' = DisplayedAfterFailure(session_state)
    /\ UNCHANGED <<version, pool, uploaded_file, api_key, evaluation_mode, custom_criteria,
                   request_log>>

\* else: the remote call raised; except Exception reports it
EvaluateError ==
    /\ ResultsColumnGuard
    /\ ~is_cached
    /\ evaluation_cache' = AfterFailure(Cache, file_hash)
    /\ session_state' = DisplayedAfterFailure(session_state)
    /\ event' \in Reported("error")
    /\ UNCHANGED <<version, pool, uploaded_file, api_key, evaluation_mode, custom_criteria,
                   request_log>>

(***************************************************************************)
(* The run of the evaluate button in two steps: the remote call is sent,   *)
(* and it returns or raises.  client.messages.create is a synchronous      *)
(* call and the thread of the run is inside it until then, but the code    *)
(* does nothing to hold the session meanwhile: the widgets stay live, and  *)
(* a widget event that arrives starts the script anew, in a thread of its  *)
(* own, while the call of the old run is still in flight (the old run is   *)
(* told to stop, which it does at its first yield point after the call,    *)
(* before any of its writes).  So every action of the script is enabled    *)
(* in a pending state too.  Where the runner waits for the old run         *)
(* instead, the old run ends at that yield point first: Complete with no   *)
(* write, then the action of the event.                                    *)
(***************************************************************************)
\* the remote calls in flight before this run sends its own: the call of a run
\* that is still inside client.messages.create, and those it counted
InFlight == IF event.kind = "pending" THEN event.in_flight ELSE 0

\* the miss branch up to the remote call; a click while the call of an earlier
\* click is pending sends a second call
BeginEvaluate ==
    /\ InFlight < MaxInFlight
    /\ ResultsColumnGuard
    /\ ~is_cached
    /\ evaluation_cache' = Cache
    /\ event' = Pending(InFlight + 1)
    /\ UNCHANGED <<version, pool, uploaded_file, api_key, evaluation_mode, custom_criteria,
                   session_state, request_log>>

\* the remote call returned or raised, and the miss branch runs to its end
Complete ==
    /\ event.kind = "pending"
    /\ \/ EvaluateStored
       \/ EvaluateParseFailed
       \/ EvaluateRaisedAfterResponse
       \/ EvaluateError

\* the widgets and st.session_state after the first run of the script
Started ==
    /\ uploaded_file = None
    /\ api_key = ""
    /\ evaluation_mode = "standard"
    /\ custom_criteria = <<>>
    /\ evaluation_cache = InitialisedCache(NoCache)
    /\ session_state = EmptyDict
    /\ event = Ran("start", FALSE)
    /\ request_log = {}

SessionInit ==
    /\ version \in Versions
    /\ pool \in Pools
    /\ Started

KeyIdle ==
    /\ req_a = << >> /\ req_b = << >>
    /\ hash_a = NotComputed /\ hash_b = NotComputed

\* no function is called on its own
PureIdle == call = NotComputed /\ outcome = NotComputed

\* the second session has just started
PeerIdle == peer = [cache |-> EmptyDict, event |-> Ran("start", FALSE)]

Init == SessionInit /\ KeyIdle /\ PureIdle /\ PeerIdle

Next ==
    \/ ChangeFile /\ UNCHANGED <<keyVars, pureVars, peerVars>>
    \/ ChangeMode /\ UNCHANGED <<keyVars, pureVars, peerVars>>
    \/ ChangeCriteria /\ UNCHANGED <<keyVars, pureVars, peerVars>>
    \/ ChangeApiKey /\ UNCHANGED <<keyVars, pureVars, peerVars>>
    \/ ClearCache /\ UNCHANGED <<keyVars, pureVars, peerVars>>
    \/ LoadCached /\ UNCHANGED <<keyVars, pureVars, peerVars>>
    \/ BeginEvaluate /\ UNCHANGED <<keyVars, pureVars, peerVars>>
    \/ Complete /\ UNCHANGED <<keyVars, pureVars, peerVars>>

Spec == Init /\ [][Next]_vars

(***************************************************************************)
(* A session whose remote call always comes to an end                      *)
(***************************************************************************)
\* the remote call returns or raises (the transport has a timeout), and the
\* code after it has no loop that could go on for ever
SoloInit ==
    /\ version \in Versions /\ pool = SoloPool /\ Started
    /\ KeyIdle /\ PureIdle /\ PeerIdle

SpecRunFair ==
    /\ SoloInit
    /\ [][Next]_vars
    /\ WF_vars(Complete /\ UNCHANGED <<keyVars, pureVars, peerVars>>)

(***************************************************************************)
(* Two sessions of one server.  st.session_state is a mapping of its own   *)
(* for every session; the second session runs the first script on one      *)
(* request, the document of a.pdf under the name p.pdf.                    *)
(***************************************************************************)
\* a cache kept in one place for all sessions
SessionSlotShared(session) == "own"

\* st.session_state['evaluation_cache'] of the session that runs the script
SessionSlot(session) == session

PeerKey == get_file_hash(DocP, "standard", <<>>)

\* the cache the second session's script reads
PeerCache ==
    IF SessionSlot("peer") = "own" THEN Cache ELSE InitialisedCache(peer.cache)

\* a run of the second session's script that leaves that cache as new_cache
PeerRan(kind, remote, new_cache) ==
    /\ evaluation_cache' = IF SessionSlot("peer") = "own" THEN new_cache
                           ELSE evaluation_cache
    /\ peer' = [cache |-> IF SessionSlot("peer") = "peer" THEN new_cache ELSE peer.cache,
                event |-> Ran(kind, remote)]
    /\ UNCHANGED <<version, pool, uploaded_file, api_key, evaluation_mode, custom_criteria,
                   session_state, event, request_log, keyVars, pureVars>>

\* the miss branch of the second session up to the remote call (a second click
\* while it is pending leaves the second session as it is)
PeerBeginEvaluate ==
    /\ ~Has(PeerCache, PeerKey)
    /\ PeerRan("pending", TRUE, PeerCache)

\* the second session's remote call returned, and its result is cached, unless
\* the run is ended before the cache write
PeerEvaluateStored ==
    /\ peer.event.kind = "pending"
    /\ \/ \E text \in ResponseTexts(1) :
            PeerRan("stored", TRUE,
                    Stored(PeerCache, PeerKey, NewEntry(1, text, "p.pdf", "standard", None)))
       \/ PeerRan("interrupted_evaluate", TRUE, PeerCache)

\* the second session's remote call raised
PeerEvaluateError ==
    /\ peer.event.kind = "pending"
    /\ \E kind \in {"error", "interrupted_evaluate"} :
         PeerRan(kind, TRUE, AfterFailure(PeerCache, PeerKey))

\* a load of the second session, ended early or not: its cache is as it was
PeerLoadCached ==
    /\ Has(PeerCache, PeerKey)
    /\ \E kind \in {"load", "interrupted_load"} :
         PeerRan(kind, FALSE, AfterLookup(PeerCache, PeerKey))

\* a clear of the second session, ended early or not: its cache is empty
PeerClearCache ==
    /\ \E kind \in {"clear", "interrupted_clear"} :
         PeerRan(kind, FALSE, ClearedCache(PeerCache))

SessionsNext ==
    \/ Next
    \/ PeerBeginEvaluate
    \/ PeerEvaluateStored
    \/ PeerEvaluateError
    \/ PeerLoadCached
    \/ PeerClearCache

SpecSessions == SoloInit /\ [][SessionsNext]_vars

(***************************************************************************)
(* get_file_hash on its own: two grading requests and their keys           *)
(***************************************************************************)
\* byte strings and texts of at most n items over an alphabet
RECURSIVE UpTo(_, _)
UpTo(alphabet, n) ==
    IF n = 0 THEN { <<>> }
    ELSE UpTo(alphabet, n - 1)
         \cup { Append(x, a) : x \in UpTo(alphabet, n - 1), a \in alphabet }

\* documents: free bytes, then nothing or the bytes of a mode name
KeyDocuments ==
    { d \o tail : d \in UpTo({80}, MaxDocLen),
                  tail \in { <<>> } \cup { encode(ModeText(m)) : m \in Modes } }

\* criteria texts: nothing or a mode name, then free code points (233 takes two bytes)
KeyCriteria ==
    { head \o c : head \in { <<>> } \cup { ModeText(m) : m \in Modes },
                  c \in UpTo({233}, MaxCritLen) }

KeyRequests == KeyDocuments \X Modes \X KeyCriteria

HashA ==
    /\ hash_a = NotComputed
    /\ hash_a' = get_file_hash(req_a[1], req_a[2], req_a[3])
    /\ UNCHANGED <<req_a, req_b, hash_b>>

HashB ==
    /\ hash_b = NotComputed
    /\ hash_b' = get_file_hash(req_b[1], req_b[2], req_b[3])
    /\ UNCHANGED <<req_a, req_b, hash_a>>

KeyInit ==
    /\ SessionInit /\ version = 1 /\ pool.modes = Modes
    /\ req_a \in KeyRequests /\ req_b \in KeyRequests
    /\ hash_a = NotComputed /\ hash_b = NotComputed
    /\ PureIdle /\ PeerIdle

KeyNext ==
    \/ HashA /\ UNCHANGED <<sessionVars, pureVars, peerVars>>
    \/ HashB /\ UNCHANGED <<sessionVars, pureVars, peerVars>>

SpecKey == KeyInit /\ [][KeyNext]_vars

(***************************************************************************)
(* Functions called on their own: the arguments are drawn in the initial   *)
(* state and one step applies the function to them                         *)
(***************************************************************************)
\* a session in which nothing happens
SessionIdle == SessionInit /\ version = 1 /\ pool.modes = Modes

PureInit(inputs) ==
    /\ SessionIdle /\ KeyIdle /\ PeerIdle
    /\ call \in inputs
    /\ outcome = NotComputed

\* the code points next to the surrogate range and the last one: U+00E9 takes
\* two bytes, U+D7FF and U+E000 three, U+10FFFF four
EdgeCodePoints == {233, 55295, 57344, 1114111}

\* criteria as st.text_area hands them over: any text of Unicode scalar values
\* (the value comes from the browser as UTF-8, which has no lone surrogate)
AnyCriteria ==
    { head \o c : head \in { <<>> } \cup { ModeText(m) : m \in Modes },
                  c \in UpTo(EdgeCodePoints, MaxCritLen) }

ComputeKeyCalls ==
    { [file_data |-> d, evaluation_mode |-> m, custom_criteria |-> c] :
        d \in KeyDocuments, m \in Modes, c \in AnyCriteria }

\* get_file_hash(file_data, evaluation_mode, custom_criteria)
ComputeKey ==
    /\ outcome = NotComputed
    /\ outcome' = [first |-> get_file_hash(call.file_data, call.evaluation_mode,
                                           call.custom_criteria)]
    /\ UNCHANGED <<sessionVars, keyVars, peerVars, call>>

\* the same call in a later run of the script
ComputeKeyAgain ==
    /\ DOMAIN outcome = {"first"}
    /\ outcome' = [first |-> outcome.first,
                   again |-> get_file_hash(call.file_data, call.evaluation_mode,
                                           call.custom_criteria)]
    /\ UNCHANGED <<sessionVars, keyVars, peerVars, call>>

\* create_marked_pdf on its own: documents of 0..MaxPages pages (a tail byte that
\* is no page, alone, makes a file that is no PDF) and evaluation records whose
\* questions name a page, name none, or were not attempted, or that hold no
\* question list
WithField(d, k, value) == IF value = None THEN d ELSE Put(d, k, value)

PdfQuestions ==
    { PyDict(WithField(WithField(Put(EmptyDict, KeyMarksAwarded, PyInt(7)),
                                 KeyPageNumber, page), KeyAttempted, attempted)) :
        page \in {None, PyInt(1), PyInt(2)}, attempted \in {None, PyBool(FALSE)} }

\* the questions of a list carry their position as question_number
Numbered(qs) ==
    [i \in 1..Len(qs) |-> PyDict(Put(qs[i].v, KeyQuestionNumber, PyInt(i)))]

PdfRecords ==
    { PyDict(Put(EmptyDict, KeyQuestions, PyList(Numbered(qs)))) :
        qs \in UpTo(PdfQuestions, 2) }
    \cup { PyDict(EmptyDict), PyDict(Put(EmptyDict, KeyQuestions, PyNone)) }

PdfDocuments ==
    { pages \o tail : pages \in UpTo({80}, MaxPages), tail \in { <<>>, <<37>> } }

MarkPdfCalls ==
    { [v |-> v, original_pdf_bytes |-> d, evaluation_data |-> r, mode |-> m] :
        v \in {2, 3}, d \in PdfDocuments, r \in PdfRecords, m \in Modes }

\* create_marked_pdf(original_pdf_bytes, evaluation_data, mode)
MarkPdf ==
    /\ outcome = NotComputed
    /\ outcome' = create_marked_pdf(call.v, call.original_pdf_bytes, call.evaluation_data,
                                    call.mode)
    /\ UNCHANGED <<sessionVars, keyVars, peerVars, call>>

MarkPdfInit == PureInit(MarkPdfCalls)

SpecMarkPdf == MarkPdfInit /\ [][MarkPdf]_vars

ComputeKeyInit == PureInit(ComputeKeyCalls)

ComputeKeyNext == ComputeKey \/ ComputeKeyAgain

SpecComputeKey == ComputeKeyInit /\ [][ComputeKeyNext]_vars

\* the cache write on its own: a cache, a key and an entry
StoreKeys == { get_file_hash(DocP, m, <<>>) : m \in Modes }

StoreEntries == { NewEntry(1, text, "a.pdf", "standard", None) : text \in ResponseTexts(1) }

StoreCalls ==
    { [cache |-> c, key |-> k, entry |-> e] :
        c \in UNION { [K -> StoreEntries] : K \in SUBSET StoreKeys },
        k \in StoreKeys, e \in StoreEntries }

\* st.session_state['evaluation_cache'][file_hash] = entry
StoreOnce ==
    /\ outcome = NotComputed
    /\ outcome' = [once |-> Stored(call.cache, call.key, call.entry)]
    /\ UNCHANGED <<sessionVars, keyVars, peerVars, call>>

\* the same assignment a second time
StoreAgain ==
    /\ DOMAIN outcome = {"once"}
    /\ outcome' = [once |-> outcome.once,
                   twice |-> Stored(outcome.once, call.key, call.entry)]
    /\ UNCHANGED <<sessionVars, keyVars, peerVars, call>>

StoreInit == PureInit(StoreCalls)

StoreNext == StoreOnce \/ StoreAgain

SpecStore == StoreInit /\ [][StoreNext]_vars

(***************************************************************************)
(* Properties                                                              *)
(***************************************************************************)
\* the runs of the hit branch and of the clear button, gone through or ended on
\* the way by a queued widget event
LoadKinds == {"load", "interrupted_load"}
ClearKinds == {"clear", "interrupted_clear"}

\* the ways the miss branch ends
CompletedKinds == {"stored", "error", "parse_failed"}

\* the runs of the evaluate/load button
SubmitKinds == LoadKinds \cup CompletedKinds \cup {"interrupted_evaluate"}

Cached(key) == key \in DOMAIN evaluation_cache

\* the result on display
ShownResult == session_state[ResultKey(version)]

\* the fields of an entry, per script
EntryFields(v) ==
    CASE v = 1 -> {"evaluation", "filename", "mode_used"}
      [] v = 2 -> {"marked_pdf", "filename"}
      [] v = 3 -> {"marked_pdf", "filename", "eval_data"}

\* every field of the entry is on display under its own name
OnDisplay(entry) ==
    \A f \in DOMAIN entry : f \in DOMAIN session_state /\ session_state[f] = entry[f]

\* C1: a request submitted while an entry for its key is in the cache is answered
\* with the stored result, and the run makes no remote call; this holds also of
\* a run that is ended after it put the result on display
C1_HitAnswersFromCache ==
    [][ (ResultsColumnGuard /\ Cached(file_hash) /\ event'.kind \in SubmitKinds)
          => /\ event'.kind \in LoadKinds
             /\ event'.remote = FALSE
             /\ session_state'[ResultKey(version)]
                  = evaluation_cache[file_hash][ResultKey(version)] ]_vars

C1_Witness ==
    /\ event.kind = "load"
    /\ ResultsColumnGuard /\ Cached(file_hash)
    /\ ShownResult = evaluation_cache[file_hash][ResultKey(version)]

\* C2: between two clears, the results put on display for one request
\* (document bytes, mode, criteria) are all the same payload, whatever the remote
\* service would have answered to a second call
C2_SameRequestSameResult ==
    \A x \in request_log : \A y \in request_log : x[1] = y[1] => x[2] = y[2]

\* C3: the cache changes only in a clear or in a run whose remote call returned a
\* result, and a run that ends in an error, or is ended before its cache write,
\* leaves the cache as it was
C3_OnlySuccessPopulates ==
    [][ /\ evaluation_cache' # evaluation_cache =>
             \/ event'.kind \in ClearKinds
             \/ /\ event'.kind = "stored" /\ event'.remote
                /\ DOMAIN evaluation_cache' = DOMAIN evaluation_cache \cup {file_hash}
                /\ \E text \in RemoteResponses :
                     \E done \in HandleResponse(version, text, uploaded_file.data,
                                                evaluation_mode) :
                         /\ done.kind = "stored"
                         /\ evaluation_cache'[file_hash][ResultKey(version)] = done.result
        /\ event'.kind \in {"error", "parse_failed", "interrupted_evaluate"} =>
             evaluation_cache' = evaluation_cache ]_vars

\* a run whose remote call was made and failed, with an entry in the cache
C3_Witness ==
    /\ event.kind \in {"error", "parse_failed"}
    /\ event.remote
    /\ Cardinality(DOMAIN evaluation_cache) = 1

\* C4: two distinct requests (document bytes, mode, criteria) never get the same
\* key, also when a document ends with a mode name or the criteria begin with one
C4_DistinctRequestsDistinctKeys ==
    (hash_a # NotComputed /\ hash_b # NotComputed /\ req_a # req_b) => hash_a # hash_b

\* the two requests differ in exactly one of document, mode and criteria
OneInputDiffers == Cardinality({ i \in 1..3 : req_a[i] # req_b[i] }) = 1

\* C11: two requests that differ in the document only, in the mode only or in the
\* criteria only get different keys (the digest taken as collision-free)
C11_OneInputChangedChangesKey ==
    (hash_a # NotComputed /\ hash_b # NotComputed /\ OneInputDiffers)
        => hash_a # hash_b

\* two keys computed for a document that ends with a mode name, under two modes
C11_Witness ==
    /\ hash_a # NotComputed /\ hash_b # NotComputed
    /\ req_a[2] # req_b[2] /\ req_a[1] = req_b[1] /\ req_a[3] = req_b[3]
    /\ \E m \in Modes : endswith(req_a[1], encode(ModeText(m)))
    /\ hash_a # hash_b

C13_StoreIdempotent ==
    /\ "once" \in DOMAIN outcome =>
          /\ DOMAIN outcome.once = DOMAIN call.cache \cup {call.key}
          /\ outcome.once[call.key] = call.entry
          /\ \A k \in DOMAIN call.cache \ {call.key} : outcome.once[k] = call.cache[k]
    /\ "twice" \in DOMAIN outcome => outcome.twice = outcome.once

\* an entry written twice over another entry of the key
C13_Witness ==
    /\ "twice" \in DOMAIN outcome
    /\ call.key \in DOMAIN call.cache
    /\ call.cache[call.key] # call.entry
    /\ outcome.twice[call.key] = call.entry

\* C14: the lookup changes nothing in the cache: a run that finds the request
\* cached and loads its entry, to the end or not, leaves every key and every
\* entry as it was
C14_LookupLeavesCache ==
    [][ event'.kind \in LoadKinds =>
          /\ Cached(file_hash)
          /\ evaluation_cache' = evaluation_cache ]_vars

\* an entry loaded from a cache that holds another entry too
C14_Witness ==
    /\ event.kind = "load"
    /\ Cached(file_hash)
    /\ \E key \in DOMAIN evaluation_cache : key # file_hash

\* C15: the cache is empty when the session starts, and the initialisation at
\* the top of every run leaves an existing cache as it is: a rerun for a widget
\* change never changes it
C15_InitCreatesOnce ==
    /\ [](event.kind = "start" => evaluation_cache = EmptyDict)
    /\ [][ event'.kind = "input" => evaluation_cache' = evaluation_cache ]_vars

\* a rerun for a widget change with entries in the cache
C15_Witness ==
    /\ event.kind = "input"
    /\ Cardinality(DOMAIN evaluation_cache) >= 1

\* C16: while a remote call is pending nothing else runs in the session: never
\* are two calls in flight, the next thing that happens is that the call ends
\* and its run with it, and the cache is not cleared and not written except by
\* the store of this very call
C16_OneInteractionAtATime ==
    [][ event.kind = "pending" =>
          /\ event.in_flight = 1
          /\ event'.kind \in CompletedKinds \cup {"interrupted_evaluate"}
          /\ \/ evaluation_cache' = evaluation_cache
             \/ /\ event'.kind = "stored"
                /\ evaluation_cache' # EmptyDict
                /\ \A key \in DOMAIN evaluation_cache :
                      /\ key \in DOMAIN evaluation_cache'
                      /\ evaluation_cache'[key] = evaluation_cache[key]
                /\ DOMAIN evaluation_cache' = DOMAIN evaluation_cache \cup {file_hash} ]_vars

\* C19: a pending remote call is always followed by the end of the interaction:
\* the result stored and displayed, or an error reported
C19_EvaluateCompletes ==
    (event.kind = "pending") ~> (event.kind \in CompletedKinds)

\* C17: a run of one session's script leaves the other session's cache as it is,
\* so what the other session finds under a key does not change: no entry of this
\* session's cache comes from the other session, and its clear drops nothing here
C17_CachePerSession ==
    /\ [](\A key \in DOMAIN evaluation_cache : evaluation_cache[key].filename # "p.pdf")
    /\ [](\A key \in DOMAIN peer.cache : peer.cache[key].filename = "p.pdf")
    /\ [][ /\ peer' # peer => evaluation_cache' = evaluation_cache
           /\ evaluation_cache' # evaluation_cache => peer' = peer ]_vars

\* while this session waits for its remote call, the other session has stored the
\* very same request, and here it is still a miss
C17_Witness ==
    /\ event.kind = "pending"
    /\ peer.event.kind = "stored"
    /\ ResultsColumnGuard
    /\ file_hash = PeerKey
    /\ PeerKey \in DOMAIN peer.cache
    /\ ~Cached(file_hash)

\* the API keys a user may have typed
TypedApiKeys == ApiKeys \ {""}

\* the names st.session_state and the entries use
StateKeys == {"evaluation", "filename", "mode_used", "marked_pdf", "eval_data"}

\* the short texts a mapping holds: file name and mode
NameAndMode(d) == { d[k] : k \in DOMAIN d \cap {"filename", "mode_used"} }

\* a mapping whose values all come from the upload, the mode and the response
HoldsNoApiKey(d) ==
    /\ DOMAIN d \subseteq StateKeys
    /\ NameAndMode(d) \cap TypedApiKeys = {}
    /\ "evaluation" \in DOMAIN d => d.evaluation \in ResponseTexts(1)

\* C18: the API key is nowhere in st.session_state and in no cache entry: their
\* only variables are the result, the file name, the mode and the evaluation
\* record, and none of these is the key the user typed
C18_ApiKeyNotStored ==
    /\ HoldsNoApiKey(session_state)
    /\ \A key \in DOMAIN evaluation_cache : HoldsNoApiKey(evaluation_cache[key])

\* a result stored and displayed by a run that used the API key
C18_Witness ==
    /\ event.kind = "stored"
    /\ api_key \in TypedApiKeys
    /\ Cached(file_hash)
    /\ "filename" \in DOMAIN session_state

\* C20: the PDF create_marked_pdf returns for a document of n pages has n + 1
\* pages: the n pages of the document in their order, each once, whether or not
\* marks were drawn on it, and then the summary page
C20_OriginalPagesThenSummary ==
    (outcome # NotComputed /\ ~outcome.raised) =>
        LET n == PdfPageCount(call.original_pdf_bytes)
            pages == outcome.value
        IN  /\ Len(pages) = n + 1
            /\ \A i \in 1..n : pages[i].kind = "original" /\ pages[i].index = i
            /\ pages[n + 1].kind = "summary"
            /\ pages[n + 1].mode = call.mode

\* a two-page document marked on its second page only
C20_Witness ==
    /\ outcome # NotComputed /\ ~outcome.raised
    /\ PdfPageCount(call.original_pdf_bytes) = 2
    /\ outcome.value[1].boxes = <<>>
    /\ outcome.value[2].boxes # <<>>
    /\ outcome.value[3].kind = "summary"

\* C21: every question of the evaluation data has its mark box drawn on exactly
\* one page of the marked PDF
PagesMarkedFor(q) ==
    { p \in 1..PdfPageCount(call.original_pdf_bytes) :
        \E b \in 1..Len(outcome.value[p].boxes) : outcome.value[p].boxes[b] = MarkBox(q) }

C21_EveryQuestionMarkedOnce ==
    (outcome # NotComputed /\ ~outcome.raised) =>
        LET qs == QuestionsOf(call.evaluation_data)
        IN  \A i \in 1..Len(qs.v) : Cardinality(PagesMarkedFor(qs.v[i])) = 1

\* C5: an entry stays under its key, unchanged, until a clear
C5_EntriesImmutable ==
    [][ \A key \in DOMAIN evaluation_cache :
          \/ event'.kind \in ClearKinds
          \/ key \in DOMAIN evaluation_cache'
             /\ evaluation_cache'[key] = evaluation_cache[key] ]_vars

\* an evaluation was stored while another entry was in the cache
C5_Witness ==
    /\ event.kind = "stored"
    /\ Cardinality(DOMAIN evaluation_cache) = 2

\* C6 as stated: every entry of every script holds the result, the file name and
\* the mode identifier
C6_EntryHoldsResultNameMode ==
    \A key \in DOMAIN evaluation_cache :
        {ResultKey(version), "filename", "mode_used"} \subseteq DOMAIN evaluation_cache[key]

\* C6 amended: every entry holds the result and the name of the file it was
\* evaluated from; the entries of version 1 also hold the mode used, those of
\* versions 2 and 3 hold no mode (version 3 holds the evaluation record instead)
C6_EntryHoldsResultAndName ==
    /\ [](\A key \in DOMAIN evaluation_cache :
            DOMAIN evaluation_cache[key] = EntryFields(version))
    /\ [][ event'.kind = "stored" =>
             /\ evaluation_cache'[file_hash].filename = uploaded_file.name
             /\ evaluation_cache'[file_hash][ResultKey(version)] = ShownResult'
             /\ version = 1 => evaluation_cache'[file_hash].mode_used = evaluation_mode ]_vars

\* an entry written by version 2 or 3
C6_Witness ==
    /\ version \in {2, 3}
    /\ event.kind = "stored"
    /\ evaluation_cache[file_hash].filename = uploaded_file.name

\* C7: right after a clear, also one that did not get to its end, every key is
\* absent, and a request submitted to an empty cache is a miss that makes the
\* remote call
C7_ClearEmptiesStore ==
    /\ [](event.kind \in ClearKinds => DOMAIN evaluation_cache = {})
    /\ [][ (DOMAIN evaluation_cache = {} /\ event'.kind \in SubmitKinds)
             => event'.kind \notin LoadKinds /\ event'.remote ]_vars

\* a clear in a session that had evaluated a request (version 1 keeps mode_used
\* across a clear)
C7_Witness ==
    /\ version = 1
    /\ event.kind = "clear"
    /\ "mode_used" \in DOMAIN session_state
    /\ DOMAIN evaluation_cache = {}

\* C8: what the miss branch stores under a key is what a lookup of the key
\* hands back: after a store and after a load, every field of the entry under the
\* request's key is on display, and after a load that was ended on the way the
\* result on display is the entry's
C8_WriteThenRead ==
    /\ event.kind \in {"stored", "load"} =>
          /\ Cached(file_hash)
          /\ OnDisplay(evaluation_cache[file_hash])
    /\ event.kind = "interrupted_load" =>
          /\ Cached(file_hash)
          /\ ShownResult = evaluation_cache[file_hash][ResultKey(version)]

\* an entry loaded while the upload widget holds the same bytes under another name
C8_Witness ==
    /\ event.kind = "load"
    /\ evaluation_cache[file_hash].filename # uploaded_file.name
    /\ session_state["filename"] = evaluation_cache[file_hash].filename

\* the key of the current document and criteria under another mode
KeyUnderMode(m) == get_file_hash(uploaded_file.data, m, custom_criteria)

\* C9: with a document cached under standard, the same document and criteria under
\* strict are a miss; their evaluation adds a second entry and leaves the standard
\* one as it is, and back under standard that entry is loaded: its result is put
\* on display, and all its fields are when the run gets to its end
C9_ModeChangeIsIndependent ==
    /\ []( (ResultsColumnGuard /\ evaluation_mode = "strict"
            /\ DOMAIN evaluation_cache = {KeyUnderMode("standard")})
           => ~Cached(file_hash) )
    /\ [][ (ResultsColumnGuard /\ evaluation_mode = "strict"
            /\ Cached(KeyUnderMode("standard")) /\ event'.kind = "stored")
           => /\ KeyUnderMode("standard") # file_hash
              /\ DOMAIN evaluation_cache' = DOMAIN evaluation_cache \cup {file_hash}
              /\ Cardinality(DOMAIN evaluation_cache')
                   = Cardinality(DOMAIN evaluation_cache) + 1
              /\ evaluation_cache'[KeyUnderMode("standard")]
                   = evaluation_cache[KeyUnderMode("standard")] ]_vars
    /\ [][ (ResultsColumnGuard /\ evaluation_mode = "standard"
            /\ Cached(file_hash) /\ event'.kind \in SubmitKinds)
           => /\ event'.kind \in LoadKinds
              /\ evaluation_cache'[file_hash] = evaluation_cache[file_hash]
              /\ session_state'[ResultKey(version)]
                   = evaluation_cache[file_hash][ResultKey(version)]
              /\ event'.kind = "load" =>
                   \A f \in DOMAIN evaluation_cache[file_hash] :
                      session_state'[f] = evaluation_cache[file_hash][f] ]_vars

\* the standard entry loaded again while the strict entry is in the cache too
C9_Witness ==
    /\ event.kind = "load"
    /\ evaluation_mode = "standard"
    /\ Cached(KeyUnderMode("strict"))
    /\ Cardinality(DOMAIN evaluation_cache) = 2

\* C10: after a run that ended in an error the same request is not in the cache,
\* and a request that is not in the cache makes the remote call when submitted
C10_FailureIsRetried ==
    /\ [](event.kind = "error" => ~Cached(file_hash))
    /\ [][ (ResultsColumnGuard /\ ~Cached(file_hash) /\ event'.kind \in SubmitKinds)
             => event'.kind \notin LoadKinds /\ event'.remote ]_vars

\* a failed run of a request, which is still absent from the cache
C10_Witness ==
    /\ event.kind = "error"
    /\ ResultsColumnGuard
    /\ ~Cached(file_hash)

\* the value of a session-state key is the same before and after a step
SameAt(k) ==
    /\ (k \in DOMAIN session_state') = (k \in DOMAIN session_state)
    /\ k \in DOMAIN session_state => session_state'[k] = session_state[k]

\* None or an empty object among what parse_json_response can give for a text
NoRecord(v, text) ==
    { evaluation_data \in ParsedResponse[v][text] :
        "raised" \notin DOMAIN evaluation_data /\ ~Truthy(evaluation_data) }

\* C22: in versions 2 and 3 a run whose remote call returned a text for which
\* parse_json_response gives None or an empty object writes no cache entry,
\* leaves the marked PDF of the session state as it was, and leaves the request
\* a miss, whether the run gets to its error message or not; and a run that
\* reports the parse failure is such a run
C22_ParseFailureLeavesNoTrace ==
    [][ /\ ( /\ version \in {2, 3}
             /\ event.kind = "pending"
             /\ "response_text" \in DOMAIN event'
             /\ ParsedResponse[version][event'.response_text]
                  = NoRecord(version, event'.response_text) )
           => /\ event'.kind \in {"parse_failed", "interrupted_evaluate"}
              /\ evaluation_cache' = evaluation_cache
              /\ SameAt("marked_pdf")
              /\ ~Has(evaluation_cache', file_hash)
        /\ event'.kind = "parse_failed"
           => /\ version \in {2, 3}
              /\ NoRecord(version, event'.response_text) # {}
              /\ evaluation_cache' = evaluation_cache
              /\ SameAt("marked_pdf")
              /\ ~Has(evaluation_cache', file_hash) ]_vars

\* a response without a record, received while an earlier marked PDF is displayed
C22_Witness ==
    /\ event.kind = "parse_failed"
    /\ NoRecord(version, event.response_text) = {None}
    /\ "marked_pdf" \in DOMAIN session_state
    /\ ResultsColumnGuard
    /\ ~Cached(file_hash)
    /\ DOMAIN evaluation_cache # {}

\* the keys of st.session_state that hold the displayed result
DisplayKeys(v) ==
    IF v = 1 THEN {"evaluation", "filename", "mode_used"}
    ELSE {"marked_pdf", "filename", "eval_data"}

\* C23: a run whose remote evaluation ended in an exception leaves every key of
\* the displayed result (evaluation, filename, mode_used in version 1; marked_pdf,
\* filename, eval_data in versions 2 and 3) as it was before the request
C23_ErrorKeepsDisplay ==
    [][ event'.kind = "error" => \A k \in DisplayKeys(version) : SameAt(k) ]_vars

\* an exception in a run of another request than the one on display
C23_Witness ==
    /\ event.kind = "error"
    /\ event.remote
    /\ ResultKey(version) \in DOMAIN session_state
    /\ ~Cached(file_hash)
    /\ "filename" \in DOMAIN session_state

\* C24: in version 1 the entry stored under the key of a request (document, mode
\* m, criteria) has mode_used = m, for every request of the session's user
C24_EntryModeIsKeyMode ==
    version = 1 =>
        \A f \in pool.files, m \in pool.modes, c \in pool.criteria :
            Cached(get_file_hash(f.data, m, c)) =>
                evaluation_cache[get_file_hash(f.data, m, c)].mode_used = m

\* C25: a cache hit puts the fields of the cached entry on display (result,
\* filename, and mode_used in version 1), and the entry's filename is the name of
\* the upload at the time the entry was written, not the name of the file now
\* uploaded
C25_HitDisplaysEntry ==
    [][ /\ event'.kind \in LoadKinds =>
              /\ session_state'[ResultKey(version)]
                   = evaluation_cache[file_hash][ResultKey(version)]
              /\ session_state'["filename"] = evaluation_cache[file_hash].filename
              /\ version = 1 =>
                   session_state'["mode_used"] = evaluation_cache[file_hash].mode_used
        /\ event'.kind = "stored" =>
              evaluation_cache'[file_hash].filename = uploaded_file.name ]_vars

\* C26: right after a clear the key that guards the results section (evaluation
\* in version 1, marked_pdf in versions 2 and 3) is absent from the session state,
\* and an absent key comes back only with a run whose remote call gave a result
C26_ClearRemovesDisplay ==
    /\ [](event.kind \in ClearKinds => ResultKey(version) \notin DOMAIN session_state)
    /\ [][ (ResultKey(version) \notin DOMAIN session_state
            /\ ResultKey(version) \in DOMAIN session_state')
             => event'.kind \in {"stored", "interrupted_evaluate"} /\ event'.remote ]_vars

\* C27: a change of the uploaded file, the mode, the criteria or the API key
\* leaves the cache and the session state as they were; they change only in a
\* run of the evaluate/load button or of the clear button, gone through or not
C27_WidgetChangeKeepsCacheAndDisplay ==
    [][ /\ event'.kind = "input" =>
              evaluation_cache' = evaluation_cache /\ session_state' = session_state
        /\ (evaluation_cache' # evaluation_cache \/ session_state' # session_state) =>
              event'.kind \in {"stored", "interrupted_evaluate"} \cup LoadKinds
                                \cup ClearKinds ]_vars

\* every widget changed away from the evaluated request, the result still there
C27_Witness ==
    /\ event.kind = "input"
    /\ uploaded_file = None
    /\ api_key = ""
    /\ evaluation_mode # "standard"
    /\ DOMAIN evaluation_cache # {}
    /\ ResultKey(version) \in DOMAIN session_state

\* C28: a run that makes the remote call, loads an entry or writes one has a
\* file uploaded and a non-empty API key, so a cached result is not loaded while
\* the API key is empty
C28_NothingWithoutFileAndKey ==
    [][ (event'.remote \/ event'.kind \in SubmitKinds)
          => /\ uploaded_file # None /\ api_key # ""
             /\ uploaded_file' # None /\ api_key' # "" ]_vars

\* the request of the widgets is cached and the API key field is empty
C28_Witness ==
    /\ uploaded_file # None
    /\ api_key = ""
    /\ Cached(file_hash)
    /\ event.kind = "input"

====
